---- MODULE Spec2Model ----
(***************************************************************************)
(* A model of the coordinator of the proxy harvester                        *)
(* (src/application/mainwindow.py, class MainWindow): the proxy set, the    *)
(* proxies table, the scrape/check batches with their worker threads, the   *)
(* events the workers send to the main thread, and the file import.         *)
(*                                                                          *)
(* Text is a sequence of one-character strings, so that splitting a line,   *)
(* parsing a port and printing it back are computed, not assumed.           *)
(* application.proxy, application.utils and application.workers are not     *)
(* part of the sources at hand: Proxy, split_list, get_real_ip, MyThread    *)
(* and the two workers are modelled from the specification.                 *)
(***************************************************************************)
EXTENDS Integers, Sequences, FiniteSets, TLC

\* ------------------------------------------------------------ bounds
\* Number of proxy source URLs (PROXY_SOURCES of application.defaults).
NumSources == 2
\* Largest configured thread count (_threadsCount).
MaxThreads == 2
\* Largest number of lines of an imported file.
MaxLines == 2

\* ------------------------------------------------------------ text
Digits == <<"0", "1", "2", "3", "4", "5", "6", "7", "8", "9">>

DigitValue(c) == (CHOOSE i \in 1..10 : Digits[i] = c) - 1

IsDigit(c) == \E i \in 1..10 : Digits[i] = c

RECURSIVE IntOfDigits(_)
IntOfDigits(s) ==
    IF s = <<>> THEN 0
    ELSE 10 * IntOfDigits(SubSeq(s, 1, Len(s) - 1)) + DigitValue(s[Len(s)])

\* int(text): the value of a decimal literal; "error" stands for ValueError.
ParseInt(s) ==
    IF s # <<>> /\ \A i \in 1..Len(s) : IsDigit(s[i])
    THEN [ok |-> TRUE, value |-> IntOfDigits(s)]
    ELSE [ok |-> FALSE, value |-> 0]

RECURSIVE StrOfInt(_)
\* str(n) for n >= 0.
StrOfInt(n) ==
    IF n < 10 THEN <<Digits[n + 1]>>
    ELSE StrOfInt(n \div 10) \o <<Digits[(n % 10) + 1]>>

RECURSIVE Split(_, _)
\* text.split(delimiter): the fields between the delimiters.
Split(s, d) ==
    IF \A i \in 1..Len(s) : s[i] # d THEN <<s>>
    ELSE LET k == CHOOSE i \in 1..Len(s) :
                      s[i] = d /\ \A j \in 1..(i - 1) : s[j] # d
         IN  <<SubSeq(s, 1, k - 1)>> \o Split(SubSeq(s, k + 1, Len(s)), d)

RECURSIVE Strip(_)
\* text.strip(): leading and trailing blanks removed.
Strip(s) ==
    IF s # <<>> /\ s[1] = " " THEN Strip(Tail(s))
    ELSE IF s # <<>> /\ s[Len(s)] = " " THEN Strip(SubSeq(s, 1, Len(s) - 1))
    ELSE s

\* ------------------------------------------------------------ Proxy
HostChars == {"A", "B", "C"}

PortMin == 1
PortMax == 65535

\* Proxy(ip, port): the value, or ValueError for an invalid host or a port
\* outside [1, 65535]. Identity is (ip, port): the record itself.
Proxy(ip, port) ==
    IF ip # <<>> /\ (\A i \in 1..Len(ip) : ip[i] \in HostChars)
       /\ port >= PortMin /\ port <= PortMax
    THEN [ok |-> TRUE, ip |-> ip, port |-> port]
    ELSE [ok |-> FALSE, ip |-> ip, port |-> port]

MkProxy(ip, port) == [ip |-> ip, port |-> port]

Min(a, b) == IF a < b THEN a ELSE b

\* split_list(items, n): n consecutive slices whose sizes differ by at most
\* one, the first len(items) % n of them holding one item more.
split_list(items, n) ==
    LET k == Len(items) \div n
        m == Len(items) % n
    IN  [i \in 1..n |->
            SubSeq(items, (i - 1) * k + Min(i - 1, m) + 1, i * k + Min(i, m))]

\* ------------------------------------------------------------ state
VARIABLES
    proxies,          \* _proxies: the set of Proxy values
    rows,             \* proxiesModel: the table rows, in order
    progressTotal,    \* _progressTotal
    progressDone,     \* _progressDone
    threadsCount,     \* _threadsCount
    threads,          \* _threads: per thread "running" or "finished"
    workers,          \* _workers: per worker its queue, _running flag, position
    realIP,           \* _realIP
    scrapeEnabled,    \* scrapeProxiesButton.isEnabled()
    checkEnabled,     \* checkProxiesButton.isEnabled()
    stopEnabled,      \* stopButton.isEnabled()
    statusMessage,    \* the status bar's message
    activeCount,      \* MyThread.activeCount
    chan,             \* per worker, its signals queued for the main thread
    file,             \* the text file an import reads
    loadStatus,       \* how the last loadProxiesFromFile ended
    \* history, read by the properties only
    onFinishedCalls,  \* onFinished deliveries since the batch started
    stopped,          \* stop() was called since the batch started
    capAtStop,        \* _progressDone plus MyThread.activeCount at the first stop()
    expected,         \* every proxy loaded at startup or sent in a result event
    warnings,         \* failure dialogs shown by the last checkProxies call
    resolveFailed     \* the last checkProxies call failed to get the real IP

vars == <<proxies, rows, progressTotal, progressDone, threadsCount, threads,
          workers, realIP, scrapeEnabled, checkEnabled, stopEnabled,
          statusMessage, activeCount, chan, file, loadStatus,
          onFinishedCalls, stopped, capAtStop, expected, warnings,
          resolveFailed>>

windowVars == <<proxies, rows, progressTotal, progressDone, threadsCount,
                threads, workers, realIP, scrapeEnabled, checkEnabled,
                stopEnabled, statusMessage, activeCount, chan>>

historyVars == <<onFinishedCalls, stopped, capAtStop, expected, warnings,
                 resolveFailed>>

fileVars == <<file, loadStatus>>

\* ------------------------------------------------------------ table
\* _proxiesModelColumns
Columns == <<"ip", "port", "user", "pass", "type", "anon", "speed", "status">>

ColumnSet == {Columns[i] : i \in 1..Len(Columns)}

\* A value handed to the table: an int or a str.
IntVal(n) == [isInt |-> TRUE, int |-> n, str |-> <<>>]

StrVal(t) == [isInt |-> FALSE, int |-> 0, str |-> t]

\* str(value)
Str(v) == IF v.isInt THEN StrOfInt(v.int) ELSE v.str

\* appendModelRow(model, columns, values)
appendModelRow(rs, columns, values) ==
    IF Len(columns) = Len(values)
    THEN Append(rs, [c \in ColumnSet |->
             IF \E j \in 1..Len(columns) : columns[j] = c
             THEN Str(values[CHOOSE j \in 1..Len(columns) : columns[j] = c])
             ELSE ""])
    ELSE rs

\* setModelRow(model, row, columns, values); rows count from 0, and a cell
\* of the row after the last one does not exist, so setData changes nothing.
setModelRow(rs, row, columns, values) ==
    IF 0 <= row /\ row <= Len(rs)
    THEN IF row < Len(rs)
         THEN LET n == Min(Len(columns), Len(values))
              IN  [rs EXCEPT ![row + 1] = [c \in ColumnSet |->
                      IF \E j \in 1..n : columns[j] = c
                      THEN Str(values[CHOOSE j \in 1..n : columns[j] = c
                                         /\ \A k \in (j + 1)..n : columns[k] # c])
                      ELSE @[c]]]
         ELSE rs
    ELSE rs

\* modelRow(model, row, columns)
modelRow(rs, row, columns) ==
    [j \in 1..Len(columns) |-> rs[row + 1][columns[j]]]

RECURSIVE resetRows(_, _)
resetRows(rs, row) ==
    IF row >= Len(rs) THEN rs
    ELSE resetRows(setModelRow(rs, row, <<"type", "anon", "speed", "status">>,
                               <<StrVal(""), StrVal(""), StrVal(""), StrVal("")>>),
                     row + 1)

\* resetTable()
resetTable(rs) == resetRows(rs, 0)

\* ------------------------------------------------------------ files
IsBlank(line) == \A i \in 1..Len(line) : line[i] = " "

RECURSIVE StripText(_)
\* text.strip().splitlines(), the text given as its lines: the blank lines
\* before the first and after the last non-blank line are gone.
StripText(lines) ==
    IF lines # <<>> /\ IsBlank(Head(lines)) THEN StripText(Tail(lines))
    ELSE IF lines # <<>> /\ IsBlank(lines[Len(lines)])
         THEN StripText(SubSeq(lines, 1, Len(lines) - 1))
    ELSE lines

\* A slip in the duplicate branch: the proxy found in the set is taken out.
addLoadedToggle(ps, p) == IF p \notin ps THEN ps \cup {p} ELSE ps \ {p}

\* if proxy not in self._proxies: self._proxies.add(proxy), else skipped
addLoaded(ps, p) == IF p \notin ps THEN ps \cup {p} ELSE ps

RECURSIVE loadLines(_, _, _)
\* The loop of loadProxiesFromFile over the lines. The line is split and
\* unpacked into (ip, port) before the try block: a line that has not exactly
\* two fields raises ValueError out of the function ("raised"), with the
\* proxies added so far kept. int(port) and Proxy(...) are inside the try
\* block: their ValueError skips the line.
loadLines(lines, ps, added) ==
    IF lines = <<>>
    THEN [status |-> IF added = 0 THEN "false" ELSE "ok", proxies |-> ps]
    ELSE LET fields == Split(Strip(Head(lines)), ":")
         IN  IF Len(fields) # 2
             THEN [status |-> "raised", proxies |-> ps]
             ELSE LET n  == ParseInt(fields[2])
                      px == Proxy(fields[1], n.value)
                      p  == MkProxy(fields[1], n.value)
                  IN  IF ~n.ok \/ ~px.ok
                      THEN loadLines(Tail(lines), ps, added)
                      ELSE loadLines(Tail(lines), addLoaded(ps, p),
                                     IF p \notin ps THEN added + 1 ELSE added)

\* loadProxiesFromFile(filePath): "false" when the file is missing or empty
\* or nothing was added, "ok" with the whole set otherwise.
loadProxiesFromFile(ps, f) ==
    IF ~f.exists THEN [status |-> "false", proxies |-> ps]
    ELSE IF f.lines = <<>> THEN [status |-> "false", proxies |-> ps]
    ELSE loadLines(StripText(f.lines), ps, 0)

\* "{}:{}".format(ip, port), the line exportProxies writes for a row
formatProxy(ip, port) == ip \o <<":">> \o port

NoFile == [exists |-> FALSE, lines |-> <<>>]

TextFile(lines) == [exists |-> TRUE, lines |-> lines]

\* The sequences over S of length at most n.
SeqsUpTo(S, n) == UNION {[1..k -> S] : k \in 0..n}

\* The orders in which the elements of a set can be iterated.
Orders(S) ==
    {s \in [1..Cardinality(S) -> S] :
        \A i, j \in 1..Cardinality(S) : i # j => s[i] # s[j]}

RECURSIVE appendProxies(_, _)
\* for proxy in proxies: appendModelRow(model, ("ip", "port"), (ip, port))
appendProxies(rs, ps) ==
    IF ps = <<>> THEN rs
    ELSE appendProxies(
             appendModelRow(rs, <<"ip", "port">>, <<StrVal(Head(ps).ip), IntVal(Head(ps).port)>>),
             Tail(ps))

\* Lines an imported file is made of: two valid ones (one with a leading zero
\* in its port), one with credentials (four fields), a blank one (one field),
\* a non-numeric port, a port out of range.
LineSamples ==
    { <<"A", ":", "0", "8", "0">>,
      <<"B", ":", "8", "1">>,
      <<"A", ":", "8", "0", ":", "u", ":", "p">>,
      <<>>,
      <<"A", ":", "x">>,
      <<"B", ":", "0">> }

Files == {NoFile} \cup {TextFile(ls) : ls \in SeqsUpTo(LineSamples, MaxLines)}

\* ------------------------------------------------------------ workers
\* PROXY_SOURCES: the source URLs, numbered.
PROXY_SOURCES == [i \in 1..NumSources |-> i]

\* The k-th proxy a source can list.
Prx(k) == MkProxy(<<"A">>, 8000 + k)

\* What a fetch of source url yields when it succeeds: two proxies, the
\* second of them listed first by the next source (the first source follows
\* the last), so that the listings overlap.
Listing(url) == <<Prx(url), Prx((url % NumSources) + 1)>>

NoProxy == MkProxy(<<>>, 0)

ScrapeItem(url) == [url |-> url, row |-> -1, proxy |-> NoProxy]

CheckItem(row, p) == [url |-> 0, row |-> row, proxy |-> p]

NoItem == [url |-> 0, row |-> -1, proxy |-> NoProxy]

\* The signals of a worker, as the main thread receives them.
StatusEvent(row) ==
    [type |-> "status", action |-> "check", row |-> row, data |-> <<>>,
     anon |-> "", message |-> FALSE]

ResultEvent(action, row, data, anon, message) ==
    [type |-> "result", action |-> action, row |-> row, data |-> data,
     anon |-> anon, message |-> message]

FinishedEvent(action) ==
    [type |-> "finished", action |-> action, row |-> -1, data |-> <<>>,
     anon |-> "", message |-> FALSE]

\* A worker as constructed: its queue filled, not cancelled, not yet at work.
\* items keeps what the queue was filled with.
NewWorker(kind, queue) ==
    [kind |-> kind, queue |-> queue, items |-> queue, running |-> TRUE,
     pc |-> "ready", cur |-> NoItem]

Range(f) == {f[i] : i \in DOMAIN f}

SeqToSet(s) == {s[i] : i \in 1..Len(s)}

ResultsIn(q) == Cardinality({i \in 1..Len(q) : q[i].type = "result"})

RECURSIVE SumOver(_, _)
SumOver(f, S) ==
    IF S = {} THEN 0
    ELSE LET x == CHOOSE y \in S : TRUE IN f[x] + SumOver(f, S \ {x})

\* A worker at the boundary between two items reads its flag; not cancelled,
\* it takes the next item of its queue (a check worker signals status).
WorkerTake(w) ==
    /\ w \in DOMAIN workers
    /\ workers[w].pc = "ready"
    /\ workers[w].running
    /\ workers[w].queue # <<>>
    /\ LET item == Head(workers[w].queue)
       IN  /\ workers' = [workers EXCEPT ![w].queue = Tail(@),
                                         ![w].cur = item,
                                         ![w].pc = "busy"]
           /\ chan' = [chan EXCEPT ![w] =
                          IF workers[w].kind = "check"
                          THEN Append(@, StatusEvent(item.row)) ELSE @]
    /\ UNCHANGED <<proxies, rows, progressTotal, progressDone, threadsCount,
                   threads, realIP, scrapeEnabled, checkEnabled, stopEnabled,
                   statusMessage, activeCount>>
    /\ UNCHANGED historyVars
    /\ UNCHANGED fileVars

\* The fetch or probe of the item in flight ends, well or not, and the worker
\* signals its result.
WorkerResult(w) ==
    /\ w \in DOMAIN workers
    /\ workers[w].pc = "busy"
    /\ \E success \in BOOLEAN :
          LET item == workers[w].cur
              ev == IF workers[w].kind = "scrape"
                    THEN ResultEvent("scrape", -1,
                             IF success THEN Listing(item.url) ELSE <<>>,
                             "", ~success)
                    ELSE ResultEvent("check", item.row, <<>>,
                             IF success THEN "elite" ELSE "", ~success)
          IN  /\ chan' = [chan EXCEPT ![w] = Append(@, ev)]
              /\ expected' = expected \cup SeqToSet(ev.data)
    /\ workers' = [workers EXCEPT ![w].cur = NoItem, ![w].pc = "ready"]
    /\ UNCHANGED <<proxies, rows, progressTotal, progressDone, threadsCount,
                   threads, realIP, scrapeEnabled, checkEnabled, stopEnabled,
                   statusMessage, activeCount>>
    /\ UNCHANGED <<onFinishedCalls, stopped, capAtStop, warnings,
                   resolveFailed>>
    /\ UNCHANGED fileVars

\* At a boundary with its queue exhausted or its flag cleared, the worker
\* signals finished and ends.
WorkerFinish(w) ==
    /\ w \in DOMAIN workers
    /\ workers[w].pc = "ready"
    /\ (~workers[w].running \/ workers[w].queue = <<>>)
    /\ workers' = [workers EXCEPT ![w].pc = "done"]
    /\ chan' = [chan EXCEPT ![w] = Append(@, FinishedEvent(workers[w].kind))]
    /\ UNCHANGED <<proxies, rows, progressTotal, progressDone, threadsCount,
                   threads, realIP, scrapeEnabled, checkEnabled, stopEnabled,
                   statusMessage, activeCount>>
    /\ UNCHANGED historyVars
    /\ UNCHANGED fileVars

\* ------------------------------------------------------------ batches
\* A slip: the workers are created with their flag already cleared.
scrapeWorkersCancelled(queues) ==
    [i \in 1..Len(queues) |->
        [NewWorker("scrape",
                   [j \in 1..Len(queues[i]) |-> ScrapeItem(queues[i][j])])
            EXCEPT !.running = FALSE]]

\* The workers of a scrape batch: one per list split_list returns, its queue
\* holding that list's URLs in order.
scrapeWorkers(queues) ==
    [i \in 1..Len(queues) |->
        NewWorker("scrape",
                  [j \in 1..Len(queues[i]) |-> ScrapeItem(queues[i][j])])]

\* A slip in the loop: every worker is given the first list.
checkWorkersFirstList(queues, rs) ==
    [i \in 1..Len(queues) |->
        NewWorker("check",
                  [j \in 1..Len(queues[1]) |->
                      LET cells == modelRow(rs, queues[1][j], <<"ip", "port">>)
                      IN  CheckItem(queues[1][j],
                                    MkProxy(cells[1], ParseInt(cells[2]).value))])]

\* The workers of a check batch: the queue of each holds, for the rows of its
\* list in order, the row and the proxy read back from the table's text.
checkWorkers(queues, rs) ==
    [i \in 1..Len(queues) |->
        NewWorker("check",
                  [j \in 1..Len(queues[i]) |->
                      LET cells == modelRow(rs, queues[i][j], <<"ip", "port">>)
                      IN  CheckItem(queues[i][j],
                                    MkProxy(cells[1], ParseInt(cells[2]).value))])]

\* A slip: the total is off by one.
scrapeTotalOffByOne(sources) == Len(sources) + 1

\* self._progressTotal = len(PROXY_SOURCES)
scrapeTotal(sources) == Len(sources)

\* self._progressTotal = self.proxiesModel.rowCount()
checkTotal(rs) == Len(rs)

\* range(n)
RangeSeq(n) == [i \in 1..n |-> i - 1]

\* MyThread.start(): the thread runs and counts as active.
startThreads(count, n) == count + n

\* What starting a batch resets in the history.
BatchHistory ==
    /\ onFinishedCalls' = 0
    /\ stopped' = FALSE
    /\ capAtStop' = 0
    /\ warnings' = 0
    /\ resolveFailed' = FALSE
    /\ UNCHANGED expected

\* scrapeProxies(), on a click of the enabled scrape button, with a positive
\* thread count
scrapeProxies ==
    /\ scrapeEnabled
    /\ threadsCount >= 1
    /\ scrapeEnabled' = FALSE
    /\ checkEnabled' = FALSE
    /\ stopEnabled' = TRUE
    /\ statusMessage' = "Scraping proxies ..."
    /\ rows' = resetTable(rows)
    /\ LET queues == split_list(PROXY_SOURCES, threadsCount)
       IN  /\ progressTotal' = scrapeTotal(PROXY_SOURCES)
           /\ progressDone' = 0
           /\ threads' = [i \in 1..Len(queues) |-> "running"]
           /\ workers' = scrapeWorkers(queues)
           /\ chan' = [i \in 1..Len(queues) |-> <<>>]
           /\ activeCount' = startThreads(activeCount, threadsCount)
           /\ BatchHistory
    /\ UNCHANGED <<proxies, threadsCount, realIP>>
    /\ UNCHANGED fileVars

\* QMessageBox.warning(parent, title, text) shows the dialog when its first
\* argument is a widget; any other first argument is a TypeError and nothing
\* is shown.
warningShown(parent) == parent = "QWidget"

\* checkProxies() on an empty table: returns at once
checkProxiesEmpty ==
    /\ checkEnabled
    /\ Len(rows) = 0
    /\ UNCHANGED vars

\* checkProxies() when get_real_ip() fails: the buttons are switched and the
\* table is reset before the lookup; the warning is called with the title as
\* its first argument, and the slot ends there.
checkProxiesFailed ==
    /\ checkEnabled
    /\ Len(rows) # 0
    /\ scrapeEnabled' = FALSE
    /\ checkEnabled' = FALSE
    /\ stopEnabled' = TRUE
    /\ statusMessage' = "Checking proxies ..."
    /\ rows' = resetTable(rows)
    /\ warnings' = IF warningShown("str") THEN 1 ELSE 0
    /\ resolveFailed' = TRUE
    /\ UNCHANGED <<proxies, progressTotal, progressDone, threadsCount, threads,
                   workers, realIP, activeCount, chan>>
    /\ UNCHANGED <<onFinishedCalls, stopped, capAtStop, expected>>
    /\ UNCHANGED fileVars

\* checkProxies() when get_real_ip() succeeds, with a positive thread count
checkProxiesStarted ==
    /\ checkEnabled
    /\ Len(rows) # 0
    /\ threadsCount >= 1
    /\ scrapeEnabled' = FALSE
    /\ checkEnabled' = FALSE
    /\ stopEnabled' = TRUE
    /\ statusMessage' = "Checking proxies ..."
    /\ rows' = resetTable(rows)
    /\ realIP' = <<"R">>
    /\ LET queues == split_list(RangeSeq(Len(rows)), threadsCount)
       IN  /\ progressTotal' = checkTotal(rows)
           /\ progressDone' = 0
           /\ threads' = [i \in 1..Len(queues) |-> "running"]
           /\ workers' = checkWorkers(queues, resetTable(rows))
           /\ chan' = [i \in 1..Len(queues) |-> <<>>]
           /\ activeCount' = startThreads(activeCount, threadsCount)
           /\ BatchHistory
    /\ UNCHANGED <<proxies, threadsCount>>
    /\ UNCHANGED fileVars

checkProxies == checkProxiesEmpty \/ checkProxiesFailed \/ checkProxiesStarted

\* A slip: the flags are left as they are.
stopWorkersNone(ws) == ws

\* A slip: the flags are flipped instead of cleared.
stopWorkersToggle(ws) == [i \in DOMAIN ws |-> [ws[i] EXCEPT !.running = ~@]]

\* for i, _ in enumerate(self._workers): self._workers[i]._running = False
stopWorkers(ws) == [i \in DOMAIN ws |-> [ws[i] EXCEPT !.running = FALSE]]

\* stop(), on a click of the enabled stop button
stop ==
    /\ stopEnabled
    /\ scrapeEnabled' = FALSE
    /\ checkEnabled' = FALSE
    /\ stopEnabled' = FALSE
    /\ statusMessage' = "Stopping threads ..."
    /\ workers' = stopWorkers(workers)
    /\ stopped' = TRUE
    /\ capAtStop' = IF stopped THEN capAtStop ELSE progressDone + activeCount
    /\ UNCHANGED <<proxies, rows, progressTotal, progressDone, threadsCount,
                   threads, realIP, activeCount, chan>>
    /\ UNCHANGED <<onFinishedCalls, expected, warnings, resolveFailed>>
    /\ UNCHANGED fileVars

\* A slip: the scrape button is not switched back on.
pulseWithoutScrape ==
    /\ IF activeCount = 0
       THEN /\ checkEnabled' = (checkEnabled \/ Len(rows) > 0)
            /\ stopEnabled' = FALSE
            /\ statusMessage' = "Ready."
       ELSE UNCHANGED <<checkEnabled, stopEnabled, statusMessage>>
    /\ UNCHANGED <<proxies, rows, progressTotal, progressDone, threadsCount,
                   threads, workers, realIP, activeCount, chan, scrapeEnabled>>
    /\ UNCHANGED historyVars
    /\ UNCHANGED fileVars


\* pulse(), on every tick of the one-second timer
pulse ==
    /\ IF activeCount = 0
       THEN /\ scrapeEnabled' = TRUE
            /\ checkEnabled' = (checkEnabled \/ Len(rows) > 0)
            /\ stopEnabled' = FALSE
            /\ statusMessage' = "Ready."
       ELSE UNCHANGED <<scrapeEnabled, checkEnabled, stopEnabled, statusMessage>>
    /\ UNCHANGED <<proxies, rows, progressTotal, progressDone, threadsCount,
                   threads, workers, realIP, activeCount, chan>>
    /\ UNCHANGED historyVars
    /\ UNCHANGED fileVars

\* ------------------------------------------------------------ events
\* A slip: the test is inverted, so a new proxy is skipped.
addScrapedInverted(st, p) ==
    IF p \in st.proxies
    THEN [proxies |-> st.proxies \cup {p},
          rows |-> appendModelRow(st.rows, <<"ip", "port">>,
                                  <<StrVal(p.ip), IntVal(p.port)>>)]
    ELSE st

\* if proxy not in self._proxies: add it and append its row, else skip it
addScraped(st, p) ==
    IF p \notin st.proxies
    THEN [proxies |-> st.proxies \cup {p},
          rows |-> appendModelRow(st.rows, <<"ip", "port">>, <<StrVal(p.ip), IntVal(p.port)>>)]
    ELSE st

RECURSIVE addAllScraped(_, _)
\* for proxy in result["data"]: ...
addAllScraped(st, data) ==
    IF data = <<>> THEN st
    ELSE addAllScraped(addScraped(st, Head(data)), Tail(data))

\* A slip: a result is not counted.
doneAfterResultSkip(done) == done

\* A slip: a result is counted twice.
doneAfterResultTwice(done) == done + 2

\* self._progressDone += 1
doneAfterResult(done) == done + 1

\* onStatus(status): the columns argument ("status") is the string itself and
\* the values argument ("") the empty string, so the pairs of zip(columns,
\* values) are none.
onStatus(rs, ev) ==
    IF ev.action = "check"
    THEN setModelRow(rs, ev.row, <<"s", "t", "a", "t", "u", "s">>, <<>>)
    ELSE rs

\* onResult(result), for a check result
onResultCheck(rs, ev) == setModelRow(rs, ev.row, <<"anon">>, <<StrVal(ev.anon)>>)

\* The main thread's event loop delivers the oldest queued signal of a worker.
deliverStatus(w) ==
    /\ w \in DOMAIN chan
    /\ chan[w] # <<>>
    /\ Head(chan[w]).type = "status"
    /\ rows' = onStatus(rows, Head(chan[w]))
    /\ chan' = [chan EXCEPT ![w] = Tail(@)]
    /\ UNCHANGED <<proxies, progressTotal, progressDone, threadsCount, threads,
                   workers, realIP, scrapeEnabled, checkEnabled, stopEnabled,
                   statusMessage, activeCount>>
    /\ UNCHANGED historyVars
    /\ UNCHANGED fileVars

deliverResult(w) ==
    /\ w \in DOMAIN chan
    /\ chan[w] # <<>>
    /\ Head(chan[w]).type = "result"
    /\ LET ev == Head(chan[w])
           st == IF ev.action = "check"
                 THEN [proxies |-> proxies, rows |-> onResultCheck(rows, ev)]
                 ELSE addAllScraped([proxies |-> proxies, rows |-> rows], ev.data)
       IN  /\ proxies' = st.proxies
           /\ rows' = st.rows
    /\ progressDone' = doneAfterResult(progressDone)
    /\ chan' = [chan EXCEPT ![w] = Tail(@)]
    /\ UNCHANGED <<progressTotal, threadsCount, threads, workers, realIP,
                   scrapeEnabled, checkEnabled, stopEnabled, statusMessage,
                   activeCount>>
    /\ UNCHANGED historyVars
    /\ UNCHANGED fileVars

\* The finished signal of a worker reaches the main thread: the thread quits
\* and, in a check batch only, onFinished() runs.
deliverFinished(w) ==
    /\ w \in DOMAIN chan
    /\ chan[w] # <<>>
    /\ Head(chan[w]).type = "finished"
    /\ threads' = [threads EXCEPT ![w] = "finished"]
    /\ activeCount' = activeCount - 1
    /\ IF Head(chan[w]).action = "check"
       THEN /\ statusMessage' = "Ready."
            /\ onFinishedCalls' = onFinishedCalls + 1
       ELSE UNCHANGED <<statusMessage, onFinishedCalls>>
    /\ chan' = [chan EXCEPT ![w] = Tail(@)]
    /\ UNCHANGED <<proxies, rows, progressTotal, progressDone, threadsCount,
                   workers, realIP, scrapeEnabled, checkEnabled, stopEnabled>>
    /\ UNCHANGED <<stopped, capAtStop, expected, warnings, resolveFailed>>
    /\ UNCHANGED fileVars

\* ------------------------------------------------------------ import
\* importProxies(): the file is loaded into the set; the call that should
\* write the rows passes three arguments to setModelRow, which takes four,
\* so the table is left as it was.
importProxies(f) ==
    /\ LET r == loadProxiesFromFile(proxies, f)
       IN  /\ proxies' = r.proxies
           /\ loadStatus' = r.status
           /\ expected' = expected \cup r.proxies
    /\ file' = f
    /\ UNCHANGED <<rows, progressTotal, progressDone, threadsCount, threads,
                   workers, realIP, scrapeEnabled, checkEnabled, stopEnabled,
                   statusMessage, activeCount, chan>>
    /\ UNCHANGED <<onFinishedCalls, stopped, capAtStop, warnings,
                   resolveFailed>>

\* ------------------------------------------------------------ specifications
\* The proxies file read at startup (data/proxies.txt): missing, or one line.
StartupFiles == {NoFile, TextFile(<<<<"A", ":", "8", "0", "0", "1">>>>)}

\* The members as constructed, but for the thread count: the startup file
\* loaded and shown, no batch yet. The buttons start as the window's form
\* leaves them.
InitMembers ==
    /\ \E f \in StartupFiles :
          LET r == loadProxiesFromFile({}, f)
          IN  /\ r.status # "raised"
              /\ proxies = r.proxies
              /\ expected = r.proxies
              /\ \E order \in Orders(IF r.status = "ok" THEN r.proxies ELSE {}) :
                    rows = appendProxies(<<>>, order)
    /\ progressTotal = 0
    /\ progressDone = 0
    /\ threads = <<>>
    /\ workers = <<>>
    /\ chan = <<>>
    /\ realIP = <<>>
    /\ scrapeEnabled \in BOOLEAN
    /\ checkEnabled \in BOOLEAN
    /\ stopEnabled \in BOOLEAN
    /\ statusMessage = "Ready."
    /\ activeCount = 0
    /\ onFinishedCalls = 0
    /\ stopped = FALSE
    /\ capAtStop = 0
    /\ warnings = 0
    /\ resolveFailed = FALSE

\* The window as constructed, with a positive thread count.
InitWindow ==
    /\ InitMembers
    /\ threadsCount \in 1..MaxThreads

Init ==
    /\ InitWindow
    /\ file = NoFile
    /\ loadStatus = "none"

Workers == 1..MaxThreads

Next ==
    \/ scrapeProxies
    \/ checkProxies
    \/ stop
    \/ pulse
    \/ \E w \in Workers : WorkerTake(w)
    \/ \E w \in Workers : WorkerResult(w)
    \/ \E w \in Workers : WorkerFinish(w)
    \/ \E w \in Workers : deliverStatus(w)
    \/ \E w \in Workers : deliverResult(w)
    \/ \E w \in Workers : deliverFinished(w)

\* The batches: starts, stop, the timer, the workers and their signals.
Spec == Init /\ [][Next]_vars

NextImport == \E f \in Files : importProxies(f)

\* The window at rest, as the first tick of the timer leaves it.
InitImport ==
    /\ Init
    /\ threadsCount = 1
    /\ scrapeEnabled
    /\ checkEnabled = (Len(rows) > 0)
    /\ ~stopEnabled

\* The file import, over every file of the bounded set, one after another.
SpecImport == InitImport /\ [][NextImport]_vars

\* Some worker thread that can take a step does (every fetch or probe ends:
\* it is bounded by the timeout), and the main thread's event loop delivers
\* queued signals.
Fairness ==
    /\ WF_vars(\E w \in Workers :
                  WorkerTake(w) \/ WorkerResult(w) \/ WorkerFinish(w))
    /\ WF_vars(\E w \in Workers :
                  deliverStatus(w) \/ deliverResult(w) \/ deliverFinished(w))

FairSpec == Spec /\ Fairness

\* ------------------------------------------------------------ properties
AllDone == \A w \in DOMAIN workers : workers[w].pc = "done"

\* Every worker of the batch has finished and every signal was delivered.
Drained ==
    /\ workers # <<>>
    /\ AllDone
    /\ \A w \in DOMAIN chan : chan[w] = <<>>

BatchKind == IF workers = <<>> THEN "none" ELSE workers[1].kind

\* C1: once all workers of a batch have signalled finished, onFinished has
\* been delivered exactly once, and it is never delivered while a worker of
\* the batch is still running.
C1_OneBatchFinished ==
    /\ onFinishedCalls <= 1
    /\ (onFinishedCalls >= 1 => AllDone)
    /\ (Drained => onFinishedCalls = 1)

\* C2: in every reachable state _progressDone <= _progressTotal.
C2_DoneAtMostTotal == progressDone <= progressTotal

\* A check batch over a table that only a scrape batch can have filled has
\* counted all of its results.
C2_Witness ==
    /\ BatchKind = "check"
    /\ Len(rows) >= 2
    /\ progressTotal = Len(rows)
    /\ progressDone = progressTotal

\* C3: without stop(), a running batch leads to every worker having signalled
\* finished, and once its signals are all delivered _progressDone equals
\* _progressTotal, whether the fetches and probes succeeded or not.
C3_CompletesWithAllCounted ==
    /\ [](Drained /\ ~stopped => progressDone = progressTotal)
    /\ ((workers # <<>> /\ ~AllDone /\ ~stopped) ~> (stopped \/ AllDone))

\* A check batch ended without stop(), one probe having failed and one not.
C3_Witness ==
    /\ Drained
    /\ ~stopped
    /\ BatchKind = "check"
    /\ progressDone = progressTotal
    /\ \E i \in 1..Len(rows) : rows[i]["anon"] = ""
    /\ \E i \in 1..Len(rows) : rows[i]["anon"] = "elite"

\* The increments of _progressDone still to come from what the batch has
\* under way: the result events queued and the items in flight.
Outstanding ==
    SumOver([w \in DOMAIN workers |->
                ResultsIn(chan[w]) + (IF workers[w].pc = "busy" THEN 1 ELSE 0)],
            DOMAIN workers)

\* C4, as claimed: after stop() _progressDone grows by at most the number of
\* workers that were active when it was called.
C4_AtMostOnePerActiveWorker ==
    stopped => progressDone <= capAtStop

\* C4, amended: after stop() a cancelled worker takes no further item, so
\* that _progressDone grows by at most the results already queued at stop()
\* plus one per worker with an item in flight then (such a worker's thread is
\* still active), and it stays as it is once the batch is drained.
C4_BoundedAfterStop ==
    /\ [](\A w \in DOMAIN workers :
              workers[w].pc = "busy" => threads[w] # "finished")
    /\ [][\A w \in DOMAIN workers :
              (w \in DOMAIN workers' /\ ~workers[w].running /\ ~workers'[w].running)
                  => workers'[w].queue = workers[w].queue]_vars
    /\ [][(stopped /\ stopped') =>
              /\ progressDone' >= progressDone
              /\ progressDone' + Outstanding' <= progressDone + Outstanding]_vars
    /\ [][(stopped /\ stopped' /\ Drained) => progressDone' = progressDone]_vars

\* stop() came with results queued; the drained batch has counted them on
\* top of one per worker active then.
C4_Witness ==
    /\ stopped
    /\ Drained
    /\ progressDone > capAtStop

\* The proxies of the result events not yet delivered.
PendingData ==
    UNION {UNION {SeqToSet(chan[w][i].data) : i \in 1..Len(chan[w])} :
              w \in DOMAIN chan}

\* The table rows that show proxy p.
RowsOf(p) ==
    {i \in 1..Len(rows) :
        rows[i]["ip"] = p.ip /\ rows[i]["port"] = StrOfInt(p.port)}

\* C5: whatever the order in which the scrape results arrive, the proxy set
\* is the startup set plus the proxies of the delivered results (so, once
\* all are delivered, their union), and each of its pairs is held once: the
\* table shows it in exactly one row.
C5_UnionInAnyOrder ==
    /\ proxies \cup PendingData = expected
    /\ (PendingData = {} => proxies = expected)
    /\ \A p \in proxies : Cardinality(RowsOf(p)) = 1

\* Two workers scraped the two sources; the second source's result came
\* first, and all results are delivered.
C5_Witness ==
    /\ Drained
    /\ BatchKind = "scrape"
    /\ Len(workers) = 2
    /\ progressDone = NumSources
    /\ proxies = {Prx(1), Prx(2)}
    /\ Len(rows) = 2
    /\ rows[1]["port"] = StrOfInt(Prx(2).port)

\* The proxies of the lines of a file that are valid on their own.
ValidProxies(f) ==
    {MkProxy(Split(Strip(f.lines[i]), ":")[1],
             ParseInt(Split(Strip(f.lines[i]), ":")[2]).value) :
        i \in {j \in 1..Len(f.lines) :
                 LET fields == Split(Strip(f.lines[j]), ":")
                 IN  /\ Len(fields) = 2
                     /\ ParseInt(fields[2]).ok
                     /\ Proxy(fields[1], ParseInt(fields[2]).value).ok}}

\* C6: an import all of whose proxies are already in the set leaves the set
\* as it is; and for every proxy p of the set, a scrape result carrying p and
\* an import of the line exported for p leave the set (and the table) as
\* they are.
C6_DuplicateLeavesSet ==
    /\ [][ValidProxies(file') \subseteq proxies => proxies' = proxies]_vars
    /\ [](\A p \in proxies :
            /\ addAllScraped([proxies |-> proxies, rows |-> rows], <<p>>)
                   = [proxies |-> proxies, rows |-> rows]
            /\ loadProxiesFromFile(proxies,
                   TextFile(<<formatProxy(p.ip, StrOfInt(p.port))>>)).proxies
                   = proxies)

\* An import ended with nothing added although the file has valid lines:
\* their proxies were all in the set already.
C6_Witness ==
    /\ loadStatus = "false"
    /\ ValidProxies(file) # {}
    /\ ValidProxies(file) \subseteq proxies

\* C7: when the real-address lookup fails no thread is started, no status or
\* result event is produced, and exactly one failure dialog is shown.
C7_AbortWithOneDiagnostic ==
    resolveFailed =>
        /\ activeCount = 0
        /\ \A w \in DOMAIN chan : chan[w] = <<>>
        /\ \A w \in DOMAIN threads : threads[w] = "finished"
        /\ warnings = 1

\* No worker has taken an item of the batch yet.
Fresh ==
    /\ workers # <<>>
    /\ progressDone = 0
    /\ \A w \in DOMAIN workers : workers[w].pc = "ready" /\ chan[w] = <<>>

\* The work items of the batch, in order.
BatchItems ==
    IF BatchKind = "scrape"
    THEN [i \in 1..Len(PROXY_SOURCES) |-> ScrapeItem(PROXY_SOURCES[i])]
    ELSE [i \in 1..Len(rows) |->
             CheckItem(i - 1, MkProxy(rows[i]["ip"], ParseInt(rows[i]["port"]).value))]

\* The places of the queues that hold item x.
PlacesOf(x) ==
    {<<w, j>> \in (DOMAIN workers) \X (1..Len(BatchItems)) :
        j <= Len(workers[w].queue) /\ workers[w].queue[j] = x}

IndexOf(x) == CHOOSE i \in 1..Len(BatchItems) : BatchItems[i] = x

\* C8: at batch start every work item is in the queue of exactly one worker,
\* once; the queues hold nothing else; and each queue holds its items in
\* their original order.
C8_EveryItemInOneQueue ==
    Fresh =>
        /\ \A i \in 1..Len(BatchItems) : Cardinality(PlacesOf(BatchItems[i])) = 1
        /\ \A w \in DOMAIN workers :
              /\ SeqToSet(workers[w].queue) \subseteq SeqToSet(BatchItems)
              /\ \A j, k \in 1..Len(workers[w].queue) :
                    j < k => IndexOf(workers[w].queue[j]) < IndexOf(workers[w].queue[k])

\* A check batch of two rows was just split over two workers.
C8_Witness ==
    /\ Fresh
    /\ BatchKind = "check"
    /\ Len(workers) = 2
    /\ Len(rows) = 2
    /\ workers[1].queue # <<>>
    /\ workers[2].queue # <<>>

\* C9: stop() applied to the state stop() leaves changes nothing; and stop()
\* after the batch has completed changes neither the progress counters nor
\* the proxy set nor the table, queues no event and lets no worker resume.
C9_StopIdempotentNoOp ==
    /\ [][stop =>
            /\ stopWorkers(workers') = workers'
            /\ ~scrapeEnabled' /\ ~checkEnabled' /\ ~stopEnabled'
            /\ statusMessage' = "Stopping threads ..."]_vars
    /\ [][(stop /\ AllDone /\ \A w \in DOMAIN chan : chan[w] = <<>>) =>
            /\ UNCHANGED <<progressTotal, progressDone, proxies, rows, chan,
                           threads, activeCount>>
            /\ \A w \in DOMAIN workers : workers'[w].pc = "done"]_vars

\* stop() was called after the check batch had completed: the message of
\* stop() stands although every onFinished of the batch was delivered.
C9_Witness ==
    /\ stopped
    /\ Drained
    /\ BatchKind = "check"
    /\ statusMessage = "Stopping threads ..."
    /\ progressTotal > 0
    /\ progressDone = progressTotal
    /\ activeCount = 0

\* C10: an import does not abort, and every valid line of the file ends up
\* in the proxy set wherever the malformed lines are.
C10_ValidLinesImported ==
    loadStatus # "none" =>
        /\ loadStatus # "raised"
        /\ ValidProxies(file) \subseteq proxies
\* ------------------------------------------------------------ C11 .. C19
\* The event at the head of worker w's channel is of the given type and this
\* step consumes it.
Consumed(w, type) ==
    /\ chan[w] # <<>>
    /\ Head(chan[w]).type = type
    /\ w \in DOMAIN chan'
    /\ chan'[w] = Tail(chan[w])

\* This step starts a batch: only MyThread.start() raises the active count.
BatchStarts == activeCount' > activeCount

\* C11: _progressDone changes only when a batch starts, to 0, and when
\* onResult consumes a result event, by exactly 1; consuming a status or a
\* finished event, and every step of a worker, leaves it as it is.
C11_DoneWrittenByConsumer ==
    /\ [][\A w \in DOMAIN chan :
              /\ Consumed(w, "result") => progressDone' = progressDone + 1
              /\ Consumed(w, "status") => progressDone' = progressDone
              /\ Consumed(w, "finished") => progressDone' = progressDone]_vars
    /\ [][BatchStarts => progressDone' = 0]_vars
    /\ [][progressDone' # progressDone =>
              \/ BatchStarts
              \/ \E w \in DOMAIN chan : Consumed(w, "result")]_vars

\* In a check batch one result was consumed and counted, a finished event is
\* consumed too, and a status event waits in a channel.
C11_Witness ==
    /\ BatchKind = "check"
    /\ progressTotal = 2
    /\ progressDone = 1
    /\ \E w \in DOMAIN threads : threads[w] = "finished"
    /\ \E w \in DOMAIN chan : chan[w] # <<>> /\ Head(chan[w]).type = "status"
\* C12: a batch just started has one worker, with one thread, per non-empty
\* partition and none for an empty one, and every thread was started once.
C12_WorkerPerNonEmptyPartition ==
    Fresh =>
        /\ \A w \in DOMAIN workers : workers[w].queue # <<>>
        /\ Len(threads) = Len(workers)
        /\ \A w \in DOMAIN threads : threads[w] = "running"
        /\ activeCount = Len(workers)
\* What split_list(items, 0) can do; the partitioner is stated for n >= 1
\* only. Either the call raises (a division by the count), or it yields no
\* partition.
SplitZeroOutcomes == {"raised", "none"}

\* What follows the call of split_list with a thread count of zero: when the
\* call raises the slot ends there; otherwise the counters and the lists are
\* set, both loops run over nothing, and no thread is started.
startZero(outcome, total) ==
    IF outcome = "raised"
    THEN /\ UNCHANGED <<progressTotal, progressDone, threads, workers, chan>>
         /\ UNCHANGED historyVars
    ELSE /\ progressTotal' = total
         /\ progressDone' = 0
         /\ threads' = <<>>
         /\ workers' = <<>>
         /\ chan' = <<>>
         /\ BatchHistory

\* scrapeProxies() with a thread count of zero
scrapeProxiesZero ==
    /\ scrapeEnabled
    /\ threadsCount = 0
    /\ scrapeEnabled' = FALSE
    /\ checkEnabled' = FALSE
    /\ stopEnabled' = TRUE
    /\ statusMessage' = "Scraping proxies ..."
    /\ rows' = resetTable(rows)
    /\ \E outcome \in SplitZeroOutcomes :
          startZero(outcome, scrapeTotal(PROXY_SOURCES))
    /\ UNCHANGED <<proxies, threadsCount, realIP, activeCount>>
    /\ UNCHANGED fileVars

\* checkProxies() with a thread count of zero, when get_real_ip() succeeds
checkProxiesZero ==
    /\ checkEnabled
    /\ Len(rows) # 0
    /\ threadsCount = 0
    /\ scrapeEnabled' = FALSE
    /\ checkEnabled' = FALSE
    /\ stopEnabled' = TRUE
    /\ statusMessage' = "Checking proxies ..."
    /\ rows' = resetTable(rows)
    /\ realIP' = <<"R">>
    /\ \E outcome \in SplitZeroOutcomes : startZero(outcome, checkTotal(rows))
    /\ UNCHANGED <<proxies, threadsCount, activeCount>>
    /\ UNCHANGED fileVars

\* loadSettings(): the thread count is the integer the settings file holds,
\* zero included.
InitSettings ==
    /\ InitMembers
    /\ threadsCount \in 0..MaxThreads
    /\ file = NoFile
    /\ loadStatus = "none"

NextSettings ==
    \/ Next
    \/ scrapeProxiesZero
    \/ checkProxiesZero

\* The batches with the thread count as the settings file gives it.
SpecSettings == InitSettings /\ [][NextSettings]_vars

\* C13: with a thread count of zero no batch starts: no step creates or
\* starts a worker or a thread, no step changes the progress counters, and
\* no step puts the window into its running state, with the stop button
\* switched on and the scrape button switched off.
C13_ZeroThreadsRejected ==
    [][threadsCount = 0 =>
          /\ UNCHANGED <<progressTotal, progressDone, activeCount>>
          /\ workers' = <<>>
          /\ threads' = <<>>
          /\ ~(~stopEnabled /\ stopEnabled' /\ scrapeEnabled /\ ~scrapeEnabled')]_vars

\* This step is a checkProxies() whose real-address lookup fails.
LookupFails == ~resolveFailed /\ resolveFailed'

\* C14: a checkProxies() whose real-address lookup fails leaves the progress
\* counters, the thread and worker lists, the real address and the type,
\* anon, speed and status cells of every row as they were.
C14_FailedLookupNoPartialWork ==
    [][LookupFails =>
          /\ UNCHANGED <<progressTotal, progressDone, threads, workers, realIP>>
          /\ Len(rows') = Len(rows)
          /\ \A i \in 1..Len(rows) :
                \A c \in {"type", "anon", "speed", "status"} :
                    rows'[i][c] = rows[i][c]]_vars
\* C15: stop() only clears flags, and only of the workers at hand: a cleared
\* flag stays cleared until the workers are replaced by those of the next
\* batch, which all start with their flag set and nothing taken; as long as
\* stop() was not called since the batch started, no worker is cancelled.
C15_CancelPerBatchWriteOnce ==
    /\ [](~stopped => \A w \in DOMAIN workers : workers[w].running)
    /\ [][\A w \in DOMAIN workers :
              (~workers[w].running /\ ~BatchStarts)
                  => (w \in DOMAIN workers' /\ ~workers'[w].running)]_vars
    /\ [][BatchStarts =>
              \A w \in DOMAIN workers' :
                  workers'[w].running /\ workers'[w].pc = "ready"]_vars

\* stop() was called in a check batch of two rows, which only follows a
\* scrape batch, while a worker still has its item to finish.
C15_Witness ==
    /\ stopped
    /\ BatchKind = "check"
    /\ Len(rows) = 2
    /\ \A w \in DOMAIN workers : ~workers[w].running
    /\ \E w \in DOMAIN workers : workers[w].pc = "busy"
\* ------------------------------------------------------------ table edits
\* Largest number of table rows a recent file is still opened on.
MaxRows == 3

\* proxiesModel.removeRow(row)
removeRow(rs, row) ==
    [i \in 1..(Len(rs) - 1) |-> IF i <= row THEN rs[i] ELSE rs[i + 1]]

Max(S) == CHOOSE x \in S : \A y \in S : y <= x

RECURSIVE removeRows(_, _, _)
\* The loop of removeSelected over the selected rows, the last one first: the
\* row's text is read, the row is removed, and the proxy made of the text is
\* removed from the set; set.remove raises KeyError for a proxy that is not
\* in the set, which ends the loop with the row already gone.
removeRows(rs, ps, selected) ==
    IF selected = {} THEN [rows |-> rs, proxies |-> ps]
    ELSE LET row   == Max(selected)
             cells == modelRow(rs, row, <<"ip", "port">>)
             p     == MkProxy(cells[1], ParseInt(cells[2]).value)
         IN  IF p \in ps
             THEN removeRows(removeRow(rs, row), ps \ {p}, selected \ {row})
             ELSE [rows |-> removeRow(rs, row), proxies |-> ps]

\* removeSelected(), with a selection of table rows
removeSelected(selected) ==
    /\ selected # {}
    /\ selected \subseteq 0..(Len(rows) - 1)
    /\ LET r == removeRows(rows, proxies, selected)
       IN  /\ rows' = r.rows
           /\ proxies' = r.proxies
    /\ UNCHANGED <<progressTotal, progressDone, threadsCount, threads, workers,
                   realIP, scrapeEnabled, checkEnabled, stopEnabled,
                   statusMessage, activeCount, chan>>
    /\ UNCHANGED historyVars
    /\ UNCHANGED fileVars

\* clearTable()
clearTable ==
    /\ proxies' = {}
    /\ rows' = <<>>
    /\ UNCHANGED <<progressTotal, progressDone, threadsCount, threads, workers,
                   realIP, scrapeEnabled, checkEnabled, stopEnabled,
                   statusMessage, activeCount, chan>>
    /\ UNCHANGED historyVars
    /\ UNCHANGED fileVars

\* openRecentFile(): the file is loaded into the set and, when something was
\* added, a row is appended for every proxy of the set loadProxiesFromFile
\* returns, which is the whole set.
openRecentFile(f) ==
    /\ LET r == loadProxiesFromFile(proxies, f)
       IN  /\ Len(rows) + Cardinality(r.proxies) <= MaxRows
           /\ proxies' = r.proxies
           /\ loadStatus' = r.status
           /\ expected' = expected \cup r.proxies
           /\ IF r.status = "ok"
              THEN \E order \in Orders(r.proxies) :
                      rows' = appendProxies(rows, order)
              ELSE rows' = rows
    /\ file' = f
    /\ UNCHANGED <<progressTotal, progressDone, threadsCount, threads, workers,
                   realIP, scrapeEnabled, checkEnabled, stopEnabled,
                   statusMessage, activeCount, chan>>
    /\ UNCHANGED <<onFinishedCalls, stopped, capAtStop, warnings,
                   resolveFailed>>

NextEdit ==
    \/ \E f \in Files : importProxies(f)
    \/ \E f \in Files : openRecentFile(f)
    \/ \E selected \in SUBSET (0..(MaxRows - 1)) : removeSelected(selected)
    \/ clearTable

\* The file menu and the edit menu: imports, recent files, removals.
SpecEdit == InitImport /\ [][NextEdit]_vars

\* The proxy a table row shows.
ShownProxy(row) == MkProxy(row["ip"], ParseInt(row["port"]).value)

\* C16: every proxy of the set is shown in exactly one row, and every row
\* shows a proxy of the set.
C16_TableShowsSet ==
    /\ \A p \in proxies : Cardinality(RowsOf(p)) = 1
    /\ \A i \in 1..Len(rows) : ShownProxy(rows[i]) \in proxies
NextTable ==
    \/ Next
    \/ \E selected \in SUBSET (0..(MaxRows - 1)) : removeSelected(selected)
    \/ clearTable

\* The batches, with rows removed from the table at any time.
SpecTable == Init /\ [][NextTable]_vars

\* The proxy worker w was given to probe for table row r.
ProbedFor(w, r) ==
    (CHOOSE item \in Range(workers[w].items) : item.row = r).proxy

\* C17: whenever onResult consumes a check result, the row it writes to shows
\* the proxy that was probed, and no other row shows that proxy.
C17_ResultOnProbedRow ==
    [][\A w \in DOMAIN chan :
          (Consumed(w, "result") /\ Head(chan[w]).action = "check") =>
              LET r == Head(chan[w]).row
              IN  /\ r < Len(rows) => ShownProxy(rows[r + 1]) = ProbedFor(w, r)
                  /\ \A i \in 1..Len(rows) :
                        ShownProxy(rows[i]) = ProbedFor(w, r) => i = r + 1]_vars
\* The timer keeps ticking: pulseTimer.start(1000).
PulseFairness == WF_vars(pulse)

\* The batches with the timer ticking; nothing is asked of the threads.
FairPulseSpec == Spec /\ PulseFairness

\* The controls as pulse() leaves them when no thread is active.
ControlsBack ==
    /\ scrapeEnabled
    /\ ~stopEnabled
    /\ (Len(rows) > 0 => checkEnabled)

\* The start buttons are off although no thread is active: the state a batch
\* leaves when its last thread has finished, stopped or not, and the state a
\* failed real-address lookup leaves.
ControlsOffWhileIdle == activeCount = 0 /\ ~scrapeEnabled /\ ~checkEnabled

====
